---- MODULE Spec2Model ----
(***************************************************************************)
(* A model of the core of the Autosys job dependency dashboard             *)
(* (src/src/autosys_dashboard.py): the JIL parser, the autorep status      *)
(* report parser, the graph builder and the impact query.                  *)
(*                                                                         *)
(* Text is modelled by TLA+ strings, and every Python string operation the *)
(* code relies on (strip, startswith, split, upper, re.findall) is         *)
(* computed character by character on them.  A file is the sequence of the *)
(* lines that split('\n') yields.                                          *)
(***************************************************************************)
EXTENDS Integers, Sequences, FiniteSets, TLC

(***************************************************************************)
(* Python string primitives                                                *)
(***************************************************************************)

\* s[i] for a 1-based position i
Char(s, i) == SubSeq(s, i, i)

\* the characters str.strip() and str.split() treat as whitespace
IsSpace(c) == c \in {" ", "\t", "\r"}

RECURSIVE LStrip(_)
LStrip(s) ==
    IF Len(s) > 0 /\ IsSpace(Char(s, 1)) THEN LStrip(SubSeq(s, 2, Len(s))) ELSE s

RECURSIVE RStrip(_)
RStrip(s) ==
    IF Len(s) > 0 /\ IsSpace(Char(s, Len(s)))
    THEN RStrip(SubSeq(s, 1, Len(s) - 1))
    ELSE s

\* str.strip()
Strip(s) == RStrip(LStrip(s))

\* str.startswith(p)
StartsWith(s, p) == Len(s) >= Len(p) /\ SubSeq(s, 1, Len(p)) = p

\* str.find(c) for a single character c, searching from position from:
\* the 1-based position of the first occurrence, 0 when there is none
RECURSIVE FindFrom(_, _, _)
FindFrom(s, c, from) ==
    IF from > Len(s) THEN 0
    ELSE IF Char(s, from) = c THEN from
    ELSE FindFrom(s, c, from + 1)

\* c in s
Contains(s, c) == FindFrom(s, c, 1) # 0

\* s.split(c, 1)[0] and s.split(c, 1)[1], for s that contains c
SplitKey(s, c) == SubSeq(s, 1, FindFrom(s, c, 1) - 1)
SplitValue(s, c) == SubSeq(s, FindFrom(s, c, 1) + 1, Len(s))

LowerLetters == "abcdefghijklmnopqrstuvwxyz"
UpperLetters == "ABCDEFGHIJKLMNOPQRSTUVWXYZ"

\* the letter pairs of str.upper() and of the case folding of ASCII text
ToUpper ==
    [c \in {Char(LowerLetters, i) : i \in 1..26} |->
        Char(UpperLetters, FindFrom(LowerLetters, c, 1))]

ToLower ==
    [c \in {Char(UpperLetters, i) : i \in 1..26} |->
        Char(LowerLetters, FindFrom(UpperLetters, c, 1))]

UpperChar(c) == IF c \in DOMAIN ToUpper THEN ToUpper[c] ELSE c

LowerChar(c) == IF c \in DOMAIN ToLower THEN ToLower[c] ELSE c

\* str.upper()
RECURSIVE Upper(_)
Upper(s) ==
    IF Len(s) = 0 THEN "" ELSE UpperChar(Char(s, 1)) \o Upper(SubSeq(s, 2, Len(s)))

\* the case folding re.IGNORECASE applies to ASCII text
RECURSIVE Lower(_)
Lower(s) ==
    IF Len(s) = 0 THEN "" ELSE LowerChar(Char(s, 1)) \o Lower(SubSeq(s, 2, Len(s)))

\* str.split(): the maximal runs of non-whitespace characters, in order
RECURSIVE SplitWS(_)
SplitWS(s) ==
    LET t == LStrip(s)
        RECURSIVE TokenEnd(_)
        TokenEnd(i) ==
            IF i > Len(t) \/ IsSpace(Char(t, i)) THEN i - 1 ELSE TokenEnd(i + 1)
    IN IF Len(t) = 0 THEN << >>
       ELSE LET e == TokenEnd(1)
            IN <<SubSeq(t, 1, e)>> \o SplitWS(SubSeq(t, e + 1, Len(t)))

(***************************************************************************)
(* re.findall(name '\(([^)]+)\)', s, re.IGNORECASE): the captured groups   *)
(* of the non-overlapping matches, left to right.  The literal part of the *)
(* pattern is compared with the case-folded text (folded), the group is    *)
(* taken from the text itself.  At a position where the predicate name and *)
(* "(" match, [^)]+ runs to the next ")" and the match succeeds iff that   *)
(* ")" exists and the run is not empty; the scan resumes after the match,  *)
(* or one character further when there is none.                            *)
(***************************************************************************)
RECURSIVE FindAllFrom(_, _, _, _)
FindAllFrom(head, s, folded, i) ==
    LET n == Len(head)
        close == FindFrom(s, ")", i + n)
    IN IF i + n - 1 > Len(s) THEN << >>
       ELSE IF SubSeq(folded, i, i + n - 1) = head /\ close > i + n
            THEN <<SubSeq(s, i + n, close - 1)>>
                     \o FindAllFrom(head, s, folded, close + 1)
            ELSE FindAllFrom(head, s, folded, i + 1)

FindAll(name, s) == FindAllFrom(name \o "(", s, Lower(s), 1)

(***************************************************************************)
(* Dictionaries are functions; a Python None-able value is << >> (None) or *)
(* <<v>>.                                                                  *)
(***************************************************************************)
EmptyDict == [k \in {} |-> << >>]

None == << >>
Some(v) == <<v>>

\* d[k] = v
Put(d, k, v) == [x \in DOMAIN d \cup {k} |-> IF x = k THEN v ELSE d[x]]

(***************************************************************************)
(* AutosysParser: the JIL script                                           *)
(***************************************************************************)

\* AutosysParser.__init__
NewParser == [jobs |-> EmptyDict, dependencies |-> EmptyDict, job_status |-> EmptyDict]

\* the record an insert_job line stores
NewJob(name) ==
    [name |-> name, job_type |-> "cmd", command |-> "", condition |-> "",
     description |-> "", machine |-> "", owner |-> ""]

\* the predicate names of the three patterns, in the order the code tries them
patterns == <<"success", "done", "failure">>

\* self.dependencies[parent_job].append(job_name) on a defaultdict(list)
AppendDependency(deps, parent_job, job_name) ==
    IF parent_job \in DOMAIN deps
    THEN [deps EXCEPT ![parent_job] = Append(@, job_name)]
    ELSE Put(deps, parent_job, <<job_name>>)

\* AddMatches without the test that drops a reference to the job itself
RECURSIVE AddMatches_NoSelfTest(_, _, _)
AddMatches_NoSelfTest(deps, job_name, matches) ==
    IF matches = << >> THEN deps
    ELSE AddMatches_NoSelfTest(AppendDependency(deps, Strip(Head(matches)), job_name),
                               job_name, Tail(matches))

\* the inner loop of _parse_condition over the matches of one pattern
RECURSIVE AddMatches(_, _, _)
AddMatches(deps, job_name, matches) ==
    IF matches = << >> THEN deps
    ELSE LET parent_job == Strip(Head(matches))
             next == IF parent_job # job_name
                     THEN AppendDependency(deps, parent_job, job_name)
                     ELSE deps
         IN AddMatches(next, job_name, Tail(matches))

\* AutosysParser._parse_condition: the dependencies after the call
RECURSIVE ParsePatterns(_, _, _, _)
ParsePatterns(deps, job_name, condition, k) ==
    IF k > Len(patterns) THEN deps
    ELSE ParsePatterns(AddMatches(deps, job_name, FindAll(patterns[k], condition)),
                       job_name, condition, k + 1)

_parse_condition(deps, job_name, condition) ==
    IF condition = "" THEN deps ELSE ParsePatterns(deps, job_name, condition, 1)

\* Python's truth value of current_job: neither None nor the empty string
Truthy(current_job) == current_job # None /\ current_job[1] # ""

JobFields == {"job_type", "command", "condition", "description", "machine", "owner"}

\* SetField whose command branch also overwrites the description
SetField_CommandAlsoDescription(jobs, job, key, value) ==
    CASE key = "job_type"    -> [jobs EXCEPT ![job].job_type = value]
      [] key = "command"     -> [jobs EXCEPT ![job].command = value,
                                             ![job].description = value]
      [] key = "condition"   -> [jobs EXCEPT ![job].condition = value]
      [] key = "description" -> [jobs EXCEPT ![job].description = value]
      [] key = "machine"     -> [jobs EXCEPT ![job].machine = value]
      [] key = "owner"       -> [jobs EXCEPT ![job].owner = value]

\* self.jobs[current_job][key] = value
SetField(jobs, job, key, value) ==
    CASE key = "job_type"    -> [jobs EXCEPT ![job].job_type = value]
      [] key = "command"     -> [jobs EXCEPT ![job].command = value]
      [] key = "condition"   -> [jobs EXCEPT ![job].condition = value]
      [] key = "description" -> [jobs EXCEPT ![job].description = value]
      [] key = "machine"     -> [jobs EXCEPT ![job].machine = value]
      [] key = "owner"       -> [jobs EXCEPT ![job].owner = value]

(***************************************************************************)
(* One iteration of the loop of parse_jil_script: p is the parser          *)
(* (jobs, dependencies, job_status), cur the local current_job, raw the    *)
(* line as split('\n') yields it.  The result is the parser and the        *)
(* current_job after the iteration.                                        *)
(***************************************************************************)
parse_jil_line(p, cur, raw) ==
    LET l == Strip(raw)
    IN IF StartsWith(l, "insert_job:")
       THEN LET name == Strip(SplitValue(l, ":"))
            IN [parser |-> [p EXCEPT !.jobs = Put(p.jobs, name, NewJob(name))],
                current_job |-> Some(name)]
       ELSE IF Truthy(cur) /\ Contains(l, ":")
       THEN LET key == Strip(SplitKey(l, ":"))
                value == Strip(SplitValue(l, ":"))
                job == cur[1]
            IN IF key \notin JobFields
               THEN [parser |-> p, current_job |-> cur]
               ELSE [parser |->
                        [p EXCEPT
                           !.jobs = SetField(p.jobs, job, key, value),
                           !.dependencies =
                               IF key = "condition"
                               THEN _parse_condition(p.dependencies, job, value)
                               ELSE p.dependencies],
                     current_job |-> cur]
       ELSE [parser |-> p, current_job |-> cur]

(***************************************************************************)
(* AutosysParser: the autorep status report                                *)
(***************************************************************************)

\* the width of the job name column: line[:60], line[60:], len(line) > 60
NameColumn == 60

\* the table of parse_autorep_output
status_mapping ==
    [code \in {"SU", "RU", "FA", "TE", "IN", "AC", "OH", "ST"} |->
        CASE code = "SU" -> "SUCCESS"
          [] code = "RU" -> "RUNNING"
          [] code = "FA" -> "FAILED"
          [] code = "TE" -> "TERMINATED"
          [] code = "IN" -> "INACTIVE"
          [] code = "AC" -> "ACTIVATED"
          [] code = "OH" -> "ON_HOLD"
          [] code = "ST" -> "STARTING"]

\* status_mapping.get(code, code)
MapStatus(code) == IF code \in DOMAIN status_mapping THEN status_mapping[code] ELSE code

\* the branch of a line longer than the name column
FixedWidthRecord(job_status, l) ==
    LET job_name == Strip(SubSeq(l, 1, NameColumn))
        remaining == Strip(SubSeq(l, NameColumn + 1, Len(l)))
        parts == SplitWS(remaining)
    IN IF Len(parts) >= 3
       THEN LET last_start == IF Len(parts) > 1
                              THEN parts[1] \o " " \o parts[2]
                              ELSE parts[1]
                last_end == IF Len(parts) > 3 /\ parts[3] # "-----"
                            THEN parts[3] \o " " \o parts[4]
                            ELSE parts[3]
                status == IF Len(parts) > 4 THEN parts[5] ELSE "UNKNOWN"
                mapped_status == MapStatus(Upper(status))
            IN Put(job_status, job_name,
                   [status |-> mapped_status,
                    last_start |-> IF last_start # "-----" THEN last_start
                                   ELSE "Not Started",
                    last_end |-> IF last_end # "-----" THEN last_end
                                 ELSE "Not Completed"])
       ELSE job_status

\* the else branch: a line of at most NameColumn characters
FallbackRecord(job_status, l) ==
    LET parts == SplitWS(l)
    IN IF Len(parts) >= 1
       THEN LET job_name == parts[1]
                status == IF Len(parts) > 1 THEN parts[Len(parts)] ELSE "UNKNOWN"
            IN Put(job_status, job_name,
                   [status |-> Upper(status),
                    last_start |-> "Unknown",
                    last_end |-> "Unknown"])
       ELSE job_status

\* one iteration of the loop of parse_autorep_output: job_status after line l
parse_autorep_line(job_status, l) ==
    IF Strip(l) # "" /\ ~StartsWith(l, "Job Name")
    THEN IF Len(l) > NameColumn
         THEN FixedWidthRecord(job_status, l)
         ELSE FallbackRecord(job_status, l)
    ELSE job_status

(***************************************************************************)
(* NetworkVisualizer                                                       *)
(***************************************************************************)

\* nx.DiGraph(): the nodes, the status attribute of the nodes that have one,
\* and the directed edges
EmptyGraph == [nodes |-> {}, status |-> EmptyDict, edges |-> {}]

\* DiGraph.add_node(n, status=st)
add_node(g, n, st) == [g EXCEPT !.nodes = @ \cup {n}, !.status = Put(@, n, st)]

\* DiGraph.add_edge(u, v): the endpoints become nodes when they are not yet
add_edge(g, u, v) == [g EXCEPT !.nodes = @ \cup {u, v}, !.edges = @ \cup {<<u, v>>}]

\* self.job_status.get(job_name, {}).get('status', 'UNKNOWN')
StatusOf(job_status, job_name) ==
    IF job_name \in DOMAIN job_status THEN job_status[job_name].status ELSE "UNKNOWN"

\* the first loop of build_graph, over the job names still to add
RECURSIVE AddNodes(_, _, _)
AddNodes(g, job_status, names) ==
    IF names = {} THEN g
    ELSE LET n == CHOOSE x \in names : TRUE
         IN AddNodes(add_node(g, n, StatusOf(job_status, n)), job_status, names \ {n})

\* the (parent_job, dependent_job) pairs the second loop of build_graph visits
RawEdges(deps) == UNION {{<<p, deps[p][i]>> : i \in 1..Len(deps[p])} : p \in DOMAIN deps}

\* KnownEdge without the test of the parent
KnownEdge_ChildOnly(jobs, parent_job, dependent_job) == dependent_job \in DOMAIN jobs

\* the test of build_graph on a pair
KnownEdge(jobs, parent_job, dependent_job) ==
    parent_job \in DOMAIN jobs /\ dependent_job \in DOMAIN jobs

\* the second loop of build_graph, over the pairs still to visit
RECURSIVE AddEdges(_, _, _)
AddEdges(g, jobs, pairs) ==
    IF pairs = {} THEN g
    ELSE LET e == CHOOSE x \in pairs : TRUE
             next == IF KnownEdge(jobs, e[1], e[2]) THEN add_edge(g, e[1], e[2]) ELSE g
         IN AddEdges(next, jobs, pairs \ {e})

\* NetworkVisualizer(jobs, dependencies, job_status).build_graph(): self.graph
build_graph(jobs, deps, job_status) ==
    AddEdges(AddNodes(EmptyGraph, job_status, DOMAIN jobs), jobs, RawEdges(deps))

\* DiGraph.successors(n), for a node n of the graph
Successors(g, n) == {e[2] : e \in {x \in g.edges : x[1] = n}}

\* the breadth-first search of nx.bfs_edges from source: the nodes visited
RECURSIVE BfsVisited(_, _, _)
BfsVisited(g, visited, frontier) ==
    IF frontier = {} THEN visited
    ELSE LET found == UNION {Successors(g, n) : n \in frontier} \ visited
         IN BfsVisited(g, visited \cup found, found)

\* a call that returns value, and a call that raises NetworkXError
Return(value) == [raised |-> FALSE, value |-> value]
Raise == [raised |-> TRUE, value |-> {}]

\* successors that follows the edges further than one hop
successors_Transitive(g, n) ==
    IF n \in g.nodes THEN Return(BfsVisited(g, {n}, {n}) \ {n}) ELSE Raise

\* list(DiGraph.successors(n)): NetworkXError when n is not a node
successors(g, n) == IF n \in g.nodes THEN Return(Successors(g, n)) ELSE Raise

\* descendants that stops after one hop
descendants_OneHop(g, source) ==
    IF source \in g.nodes THEN Return(Successors(g, source)) ELSE Raise

\* nx.descendants(G, source): NetworkXError when source is not a node; else
\* the child ends of the edges of the search, which never reports the source
\* it starts from
descendants(g, source) ==
    IF source \in g.nodes
    THEN Return(BfsVisited(g, {source}, {source}) \ {source})
    ELSE Raise

\* InGraph that takes every name for a node
InGraph_Always(g, job_name) == TRUE

\* job_name in self.graph
InGraph(g, job_name) == job_name \in g.nodes

\* NetworkVisualizer.get_impacted_jobs: the set returned, or the error raised
get_impacted_jobs(g, job_name, status) ==
    IF status \in {"FAILED", "TERMINATED"}
    THEN IF InGraph(g, job_name) THEN descendants(g, job_name) ELSE Return({})
    ELSE IF status = "RUNNING"
    THEN IF InGraph(g, job_name) THEN successors(g, job_name) ELSE Return({})
    ELSE Return({})

(***************************************************************************)
(* Inputs                                                                  *)
(***************************************************************************)

\* lines read in a session (of the JIL scripts and of the status reports
\* together), and presses of "Process Files" in a session
MaxLines == 4
MaxRuns == 2

RECURSIVE Spaces(_)
Spaces(n) == IF n <= 0 THEN "" ELSE " " \o Spaces(n - 1)

\* a report line as autorep prints it: the name padded to the name column,
\* then the other columns
FixedLine(name, rest) == name \o Spaces(NameColumn - Len(name)) \o rest

\* the lines a JIL script is made of
JilLines ==
    { "insert_job: A",
      "  insert_job:B\r",
      "insert_job:",
      "condition: success(A)",
      "condition: done(A) | Failure( B )",
      "condition: success(X) & success(X)",
      "condition:",
      "command: echo a:b",
      "Condition: success(A)",
      "no colon" }

\* the lines a status report is made of
RepLines ==
    { FixedLine("Job Name", "Last Start           Last End             ST Run/Ntry"),
      FixedLine("A", "03/01/2024 10:00:00  03/01/2024 10:05:00  SU  101/1"),
      FixedLine("B", "03/01/2024 11:00:00  -----                RU  102/1"),
      FixedLine("A", "-----                -----                IN  0/0"),
      FixedLine("Z", "03/01/2024 09:00:00  03/01/2024 09:30:00  xx  7/1"),
      FixedLine("B", "fa"),
      "A FA",
      " Z ru ",
      "lonely",
      "" }

(***************************************************************************)
(* The session: main() keeps one AutosysParser in st.session_state, and    *)
(* each press of "Process Files" runs parse_jil_script, then               *)
(* parse_autorep_output, then builds a new NetworkVisualizer.              *)
(***************************************************************************)
VARIABLES
    jobs,          \* parser.jobs
    dependencies,  \* parser.dependencies
    job_status,    \* parser.job_status
    current_job,   \* the local current_job of parse_jil_script
    first,         \* parse_autorep_output has not yet met a non-blank line
    pc,            \* "idle", or the step of "Process Files" in progress
    visualizer,    \* st.session_state.visualizer: None or the graph built
    impacted,      \* the last call of get_impacted_jobs: None or its record
    reference,     \* a fresh AutosysParser fed the current files only
    runs,          \* presses of "Process Files" so far
    nLines         \* lines read so far

vars == <<jobs, dependencies, job_status, current_job, first, pc,
          visualizer, impacted, reference, runs, nLines>>

\* st.session_state.parser
Parser == [jobs |-> jobs, dependencies |-> dependencies, job_status |-> job_status]

Init ==
    /\ jobs = NewParser.jobs
    /\ dependencies = NewParser.dependencies
    /\ job_status = NewParser.job_status
    /\ current_job = None
    /\ first = TRUE
    /\ pc = "idle"
    /\ visualizer = None
    /\ impacted = None
    /\ reference = NewParser
    /\ runs = 0
    /\ nLines = 0

\* the button, with both files uploaded: parse_jil_script is entered
ProcessFiles ==
    /\ pc = "idle"
    /\ runs < MaxRuns
    /\ runs' = runs + 1
    /\ pc' = "jil"
    /\ current_job' = None
    /\ reference' = NewParser
    /\ impacted' = None
    /\ UNCHANGED <<jobs, dependencies, job_status, first, visualizer, nLines>>

\* one iteration of the loop of parse_jil_script, on the line l
JilLine(l) ==
    /\ pc = "jil"
    /\ nLines < MaxLines
    /\ nLines' = nLines + 1
    /\ LET r == parse_jil_line(Parser, current_job, l)
           f == parse_jil_line(reference, current_job, l)
       IN /\ jobs' = r.parser.jobs
          /\ dependencies' = r.parser.dependencies
          /\ current_job' = r.current_job
          /\ reference' = f.parser
    /\ UNCHANGED <<job_status, first, pc, visualizer, impacted, runs>>

\* parse_jil_script returns and parse_autorep_output is entered
JilDone ==
    /\ pc = "jil"
    /\ pc' = "autorep"
    /\ first' = TRUE
    /\ UNCHANGED <<jobs, dependencies, job_status, current_job, visualizer,
                   impacted, reference, runs, nLines>>

\* the line the loop of parse_autorep_output sees for the line l of the file:
\* the strip() of the whole content takes the leading whitespace of the first
\* non-blank line and the trailing whitespace of the last one
SeenLine(l, isFirst, isLast) ==
    LET a == IF isFirst THEN LStrip(l) ELSE l
    IN IF isLast THEN RStrip(a) ELSE a

\* one iteration of the loop of parse_autorep_output, on the line l of the
\* file; last: no non-blank line follows l in the file, and the loop ends
AutorepLine(l, last) ==
    /\ pc = "autorep"
    /\ nLines < MaxLines
    /\ last => Strip(l) # ""
    /\ ~last => nLines + 1 < MaxLines \/ (first /\ Strip(l) = "")
    /\ nLines' = nLines + 1
    /\ LET seen == SeenLine(l, first, last)
       IN /\ job_status' = parse_autorep_line(job_status, seen)
          /\ reference' = [reference EXCEPT
                              !.job_status = parse_autorep_line(@, seen)]
    /\ first' = (first /\ Strip(l) = "")
    /\ pc' = IF last THEN "build" ELSE "autorep"
    /\ UNCHANGED <<jobs, dependencies, current_job, visualizer, impacted, runs>>

\* a report of blank lines only: the loop sees the single line ""
AutorepBlank ==
    /\ pc = "autorep"
    /\ first
    /\ pc' = "build"
    /\ UNCHANGED <<jobs, dependencies, job_status, current_job, first, visualizer,
                   impacted, reference, runs, nLines>>

\* NetworkVisualizer(parser.jobs, parser.dependencies, parser.job_status)
\* and its build_graph()
BuildGraph ==
    /\ pc = "build"
    /\ visualizer' = Some(build_graph(jobs, dependencies, job_status))
    /\ pc' = "idle"
    /\ UNCHANGED <<jobs, dependencies, job_status, current_job, first,
                   impacted, reference, runs, nLines>>

Next ==
    \/ ProcessFiles
    \/ \E l \in JilLines : JilLine(l)
    \/ JilDone
    \/ \E l \in RepLines, last \in BOOLEAN : AutorepLine(l, last)
    \/ AutorepBlank
    \/ BuildGraph

Spec == Init /\ [][Next]_vars

(***************************************************************************)
(* The graph builder and the impact query on their own: build_graph and    *)
(* get_impacted_jobs are functions of the jobs, the dependencies and the   *)
(* statuses a parser holds.  The parser here holds any jobs among          *)
(* GraphNames and any dependencies the JIL parser can record for them: the *)
(* child of a pair is a defined job and differs from the parent, which may *)
(* be an undefined name.                                                   *)
(***************************************************************************)
GraphNames == {"A", "B", "C"}
UndefinedName == "X"

\* the statuses and job names get_impacted_jobs is asked about
QueryStatuses == {"FAILED", "TERMINATED", "RUNNING", "SUCCESS", "UNKNOWN", "RU", "failed"}
QueryNames == GraphNames \cup {UndefinedName}

\* a list of the elements of a set
RECURSIVE ListOf(_)
ListOf(set) ==
    IF set = {} THEN << >>
    ELSE LET x == CHOOSE y \in set : TRUE IN <<x>> \o ListOf(set \ {x})

\* the dependencies dictionary that holds the pairs of a set once each
DependenciesOf(pairs) ==
    [p \in {e[1] : e \in pairs} |-> ListOf({e[2] : e \in {x \in pairs : x[1] = p}})]

InitGraph ==
    /\ \E defined \in SUBSET GraphNames :
         /\ jobs = [n \in defined |-> NewJob(n)]
         /\ \E pairs \in SUBSET {e \in (GraphNames \cup {UndefinedName}) \X defined :
                                    e[1] # e[2]} :
              dependencies = DependenciesOf(pairs)
    /\ job_status = NewParser.job_status
    /\ current_job = None
    /\ first = TRUE
    /\ pc = "build"
    /\ visualizer = None
    /\ impacted = None
    /\ reference = NewParser
    /\ runs = 1
    /\ nLines = 0

\* a call of get_impacted_jobs on the graph built
GetImpactedJobs(job_name, status) ==
    /\ pc = "idle"
    /\ visualizer # None
    /\ impacted' = Some([job_name |-> job_name, status |-> status,
                         call |-> get_impacted_jobs(visualizer[1], job_name, status)])
    /\ UNCHANGED <<jobs, dependencies, job_status, current_job, first, pc,
                   visualizer, reference, runs, nLines>>

NextGraph ==
    \/ BuildGraph
    \/ \E j \in QueryNames, st \in QueryStatuses : GetImpactedJobs(j, st)

SpecGraph == InitGraph /\ [][NextGraph]_vars

(***************************************************************************)
(* Properties                                                              *)
(***************************************************************************)

\* the graph of the visualizer, once there is one
Graph == visualizer[1]

\* the names with a record in a dictionary
Keys(d) == DOMAIN d

\* the raw edges between two defined jobs
DefinedRawEdges ==
    {e \in RawEdges(dependencies) : e[1] \in Keys(jobs) /\ e[2] \in Keys(jobs)}

\* C1: every edge of the graph joins two different jobs of the parsed job
\* set, and once a graph is built its edges are the raw edges between defined
\* jobs: the raw edges with an undefined end are left out, nothing else is.
C1_EdgesJoinDefinedJobs ==
    visualizer # None =>
        /\ \A e \in Graph.edges :
              e[1] \in Keys(jobs) /\ e[2] \in Keys(jobs) /\ e[1] # e[2]
        /\ pc = "idle" => Graph.edges = DefinedRawEdges

\* a graph with an edge, built while a raw edge with an undefined parent was
\* recorded and after a condition that names its own job was read
C1_Witness ==
    /\ pc = "idle"
    /\ visualizer # None
    /\ Graph.edges # {}
    /\ RawEdges(dependencies) \ Graph.edges # {}
    /\ \E j \in Keys(jobs) : jobs[j].condition = "done(A) | Failure( B )"

\* C2: after build_graph the nodes of the graph are exactly the defined jobs.
C2_NodesAreDefinedJobs ==
    (pc = "idle" /\ visualizer # None) => Graph.nodes = Keys(jobs)

\* a graph built while a name has a status but no definition, a name is a
\* parent of a raw edge but has no definition, and a defined job has no edge
C2_Witness ==
    /\ pc = "idle"
    /\ visualizer # None
    /\ Keys(job_status) \ Keys(jobs) # {}
    /\ Keys(dependencies) \ Keys(jobs) # {}
    /\ \E j \in Keys(jobs) : \A e \in Graph.edges : e[1] # j /\ e[2] # j

\* the nodes of g reached from j along a path of one or more edges
Reachable(g, j) ==
    {n \in g.nodes :
        \E k \in 1..Cardinality(g.nodes) :
            \E path \in [0..k -> g.nodes] :
                /\ path[0] = j
                /\ path[k] = n
                /\ \A i \in 1..k : <<path[i - 1], path[i]>> \in g.edges}

\* the last call of get_impacted_jobs was for a node of the graph
AskedOfNode == impacted # None /\ impacted[1].job_name \in Graph.nodes

\* C3, as claimed: for FAILED and TERMINATED the call returns every node
\* reachable from the job along one or more edges.
C3_Claimed ==
    (AskedOfNode /\ impacted[1].status \in {"FAILED", "TERMINATED"}) =>
        impacted[1].call = Return(Reachable(Graph, impacted[1].job_name))

\* C3, amended: for FAILED and TERMINATED the call returns every node other
\* than the job itself that is reachable from the job along one or more edges.
C3_DescendantsWithoutSelf ==
    (AskedOfNode /\ impacted[1].status \in {"FAILED", "TERMINATED"}) =>
        impacted[1].call =
            Return(Reachable(Graph, impacted[1].job_name) \ {impacted[1].job_name})

\* a FAILED call for a job that lies on a cycle and reaches a node two edges
\* away that is not a successor
C3_Witness ==
    /\ AskedOfNode
    /\ impacted[1].status = "FAILED"
    /\ impacted[1].job_name \in Reachable(Graph, impacted[1].job_name)
    /\ impacted[1].call.value \ Successors(Graph, impacted[1].job_name) # {}

\* C4: for RUNNING the call returns exactly the nodes at the end of an edge
\* that leaves the job.
C4_RunningIsOneHop ==
    (AskedOfNode /\ impacted[1].status = "RUNNING") =>
        impacted[1].call =
            Return({n \in Graph.nodes : <<impacted[1].job_name, n>> \in Graph.edges})

\* a RUNNING call for a job with a successor and a node further away that is
\* not a successor
C4_Witness ==
    /\ AskedOfNode
    /\ impacted[1].status = "RUNNING"
    /\ impacted[1].call.value # {}
    /\ Reachable(Graph, impacted[1].job_name)
           \ (impacted[1].call.value \cup {impacted[1].job_name}) # {}

\* C5: the call returns the empty set, and raises nothing, for a status other
\* than FAILED, TERMINATED and RUNNING, and for a job that is no node.
C5_EmptyOtherwise ==
    (/\ impacted # None
     /\ \/ impacted[1].status \notin {"FAILED", "TERMINATED", "RUNNING"}
        \/ impacted[1].job_name \notin Graph.nodes)
    => impacted[1].call = Return({})

\* a FAILED call for a name that is a parent of a raw edge and no node
C5_Witness ==
    /\ impacted # None
    /\ impacted[1].status = "FAILED"
    /\ impacted[1].job_name \notin Graph.nodes
    /\ impacted[1].job_name \in Keys(dependencies)

\* a call with a status outside the three, for a node that has successors
C5_WitnessOtherStatus ==
    /\ AskedOfNode
    /\ impacted[1].status = "SUCCESS"
    /\ Successors(Graph, impacted[1].job_name) # {}

(***************************************************************************)
(* The JIL line l read as a field line: its key and its value.             *)
(***************************************************************************)
IsFieldLine(l) == ~StartsWith(Strip(l), "insert_job:") /\ Contains(Strip(l), ":")
FieldKey(l) == Strip(SplitKey(Strip(l), ":"))
FieldValue(l) == Strip(SplitValue(Strip(l), ":"))
IsConditionLine(l) == IsFieldLine(l) /\ FieldKey(l) = "condition"

\* the predicate references of a condition: <<k, i>> when the k-th predicate
\* name, in any case, stands at position i and is followed by "(", a
\* non-empty text without ")", and ")"
References(condition) ==
    {r \in (1..Len(patterns)) \X (1..Len(condition)) :
        LET n == Len(patterns[r[1]]) + 1
            open == r[2] + n - 1
        IN /\ open < Len(condition)
           /\ Lower(SubSeq(condition, r[2], open)) = patterns[r[1]] \o "("
           /\ Char(condition, open + 1) # ")"
           /\ FindFrom(condition, ")", open + 1) # 0}

\* the job a reference names
ReferenceName(condition, r) ==
    LET open == r[2] + Len(patterns[r[1]])
    IN Strip(SubSeq(condition, open + 1, FindFrom(condition, ")", open + 1) - 1))

\* how many times the raw edge (parent -> child) is recorded
EdgeCount(deps, parent, child) ==
    IF parent \in DOMAIN deps
    THEN Cardinality({i \in 1..Len(deps[parent]) : deps[parent][i] = child})
    ELSE 0

\* a condition line l has recorded, for the job j, one raw edge for every
\* reference to another job, and none for a reference to j
EdgesRecordedFor(l, j) ==
    LET c == FieldValue(l)
    IN /\ \A r \in References(c) :
            LET x == ReferenceName(c, r)
                n == Cardinality({q \in References(c) : ReferenceName(c, q) = x})
            IN x # j =>
                 EdgeCount(dependencies', x, j) = EdgeCount(dependencies, x, j) + n
       /\ EdgeCount(dependencies', j, j) = 0

\* C6, as claimed: a condition line read while a job context is active records
\* a raw edge for every reference to another job and none for a reference to
\* the job itself.
C6_Claimed ==
    [][\A l \in JilLines :
          (JilLine(l) /\ current_job # None /\ IsConditionLine(l))
              => EdgesRecordedFor(l, current_job[1])]_vars

\* C6 for the contexts the code takes as active: those of a job whose name is
\* not empty.
C6_HoldsForNamedJobs ==
    [][\A l \in JilLines :
          (JilLine(l) /\ current_job # None /\ current_job[1] # ""
                /\ IsConditionLine(l))
              => EdgesRecordedFor(l, current_job[1])]_vars

\* C7, as claimed: once "Process Files" is done, the parser holds what a fresh
\* parser holds after the files of this press alone.
C7_Claimed == (pc = "idle" /\ runs > 0) => Parser = reference

(***************************************************************************)
(* The report line seen read by the rules of the report format.            *)
(***************************************************************************)
IsHandled(seen) == Strip(seen) # "" /\ ~StartsWith(seen, "Job Name")
IsFixedWidth(seen) == Len(seen) > NameColumn
Fields(seen) == SplitWS(SubSeq(seen, NameColumn + 1, Len(seen)))
Tokens(seen) == SplitWS(seen)

\* the line has the shape a mode makes a record of
HasShape(seen) ==
    IF IsFixedWidth(seen) THEN Len(Fields(seen)) >= 3 ELSE Len(Tokens(seen)) >= 1

LineName(seen) ==
    IF IsFixedWidth(seen) THEN Strip(SubSeq(seen, 1, NameColumn)) ELSE Tokens(seen)[1]

\* the status code of the line: the 5th field, or the last token, or UNKNOWN
LineCode(seen) ==
    IF IsFixedWidth(seen)
    THEN IF Len(Fields(seen)) >= 5 THEN Fields(seen)[5] ELSE "UNKNOWN"
    ELSE IF Len(Tokens(seen)) > 1 THEN Tokens(seen)[Len(Tokens(seen))] ELSE "UNKNOWN"

\* C8, as claimed: the record a line produces, in either mode, holds the
\* status code of the line mapped through the table, or uppercased when the
\* table does not hold it.
C8_Claimed ==
    [][\A l \in RepLines, last \in BOOLEAN :
          LET seen == SeenLine(l, first, last)
          IN (AutorepLine(l, last) /\ IsHandled(seen) /\ HasShape(seen))
                => /\ LineName(seen) \in Keys(job_status')
                   /\ job_status'[LineName(seen)].status
                          = MapStatus(Upper(LineCode(seen)))]_vars

\* C8 for the fixed-width mode alone.
C8_HoldsInFixedWidthMode ==
    [][\A l \in RepLines, last \in BOOLEAN :
          LET seen == SeenLine(l, first, last)
          IN (AutorepLine(l, last) /\ IsHandled(seen) /\ HasShape(seen)
                /\ IsFixedWidth(seen))
                => /\ LineName(seen) \in Keys(job_status')
                   /\ job_status'[LineName(seen)].status
                          = MapStatus(Upper(LineCode(seen)))]_vars

\* a timestamp field that starts at field i: the placeholder maps to the
\* sentinel, a date is joined with the time that follows it
Timestamp(fields, i, sentinel) ==
    IF fields[i] = "-----" THEN sentinel ELSE fields[i] \o " " \o fields[i + 1]

\* the field the last-end column starts at: after a placeholder, or after a
\* date and a time
EndField(fields) == IF fields[1] = "-----" THEN 2 ELSE 3

\* the timestamp columns are complete: each is a placeholder or two tokens
TimestampsComplete(fields) ==
    /\ Len(fields) >= EndField(fields)
    /\ fields[EndField(fields)] # "-----" => Len(fields) > EndField(fields)

\* C9, as claimed: in a fixed-width line a placeholder last-start gives
\* "Not Started", a placeholder last-end gives "Not Completed", and any other
\* timestamp is its date joined with its time.
C9_Claimed ==
    [][\A l \in RepLines, last \in BOOLEAN :
          LET seen == SeenLine(l, first, last)
              f == Fields(seen)
          IN (AutorepLine(l, last) /\ IsHandled(seen) /\ IsFixedWidth(seen)
                /\ HasShape(seen) /\ TimestampsComplete(f))
                => /\ LineName(seen) \in Keys(job_status')
                   /\ job_status'[LineName(seen)].last_start
                          = Timestamp(f, 1, "Not Started")
                   /\ job_status'[LineName(seen)].last_end
                          = Timestamp(f, EndField(f), "Not Completed")]_vars

\* C9 for the lines whose last-start is a date and a time.
C9_HoldsAfterStartDate ==
    [][\A l \in RepLines, last \in BOOLEAN :
          LET seen == SeenLine(l, first, last)
              f == Fields(seen)
          IN (AutorepLine(l, last) /\ IsHandled(seen) /\ IsFixedWidth(seen)
                /\ HasShape(seen) /\ TimestampsComplete(f) /\ f[1] # "-----")
                => /\ LineName(seen) \in Keys(job_status')
                   /\ job_status'[LineName(seen)].last_start
                          = Timestamp(f, 1, "Not Started")
                   /\ job_status'[LineName(seen)].last_end
                          = Timestamp(f, EndField(f), "Not Completed")]_vars

\* C10, as claimed: every non-blank, non-header line leaves a record for its
\* job name, the record of that line alone whatever the name held before,
\* and no other name's record changes.
C10_Claimed ==
    [][\A l \in RepLines, last \in BOOLEAN :
          LET seen == SeenLine(l, first, last)
              alone == parse_autorep_line(NewParser.job_status, seen)
          IN (AutorepLine(l, last) /\ IsHandled(seen))
                => /\ LineName(seen) \in Keys(job_status')
                   /\ LineName(seen) \in Keys(alone)
                   /\ job_status'[LineName(seen)] = alone[LineName(seen)]
                   /\ \A n \in Keys(job_status) \ {LineName(seen)} :
                         n \in Keys(job_status') /\ job_status'[n] = job_status[n]]_vars

\* C10 for the lines that have the shape their mode expects.
C10_HoldsForShapedLines ==
    [][\A l \in RepLines, last \in BOOLEAN :
          LET seen == SeenLine(l, first, last)
              alone == parse_autorep_line(NewParser.job_status, seen)
          IN (AutorepLine(l, last) /\ IsHandled(seen) /\ HasShape(seen))
                => /\ LineName(seen) \in Keys(job_status')
                   /\ LineName(seen) \in Keys(alone)
                   /\ job_status'[LineName(seen)] = alone[LineName(seen)]
                   /\ \A n \in Keys(job_status) \ {LineName(seen)} :
                         n \in Keys(job_status') /\ job_status'[n] = job_status[n]]_vars

(***************************************************************************)
(* The frame of one line of parse_jil_script.                              *)
(***************************************************************************)
IsJobStart(l) == StartsWith(Strip(l), "insert_job:")

\* a line the parser has nothing to do with: read before any job-start
\* marker, or without a colon, or with a key that is no field of a job
IsIgnoredLine(l, context) ==
    /\ ~IsJobStart(l)
    /\ \/ context = None
       \/ ~Contains(Strip(l), ":")
       \/ FieldKey(l) \notin JobFields

\* a key: value line with the key of a job field
IsRecognizedFieldLine(l) == IsFieldLine(l) /\ FieldKey(l) \in JobFields

\* the keys of a job record
RecordKeys == JobFields \cup {"name"}

\* the jobs differ at most in the field key of the record of j
OnlyFieldChanged(before, after, j, key) ==
    /\ Keys(after) = Keys(before)
    /\ \A n \in Keys(before) :
          \A k \in RecordKeys : (n # j \/ k # key) => after[n][k] = before[n][k]

\* the dependencies differ at most by entries j appended to the lists
OnlyChildAppended(before, after, j) ==
    /\ Keys(before) \subseteq Keys(after)
    /\ \A p \in Keys(after) :
          LET old == IF p \in Keys(before) THEN before[p] ELSE << >>
          IN /\ Len(after[p]) >= Len(old)
             /\ SubSeq(after[p], 1, Len(old)) = old
             /\ \A i \in (Len(old) + 1)..Len(after[p]) : after[p][i] = j

\* C11: a line read before any job-start marker, a line without a colon and a
\* line with an unrecognized key leave the jobs and the raw edges as they
\* were; a recognized field line read in the context of a job changes at most
\* that field of that job's record, and the raw edges only for the key
\* condition and then only by appending edges whose child is that job.
C11_LineFrame ==
    [][\A l \in JilLines :
          JilLine(l) =>
            /\ IsIgnoredLine(l, current_job) =>
                  jobs' = jobs /\ dependencies' = dependencies
            /\ (IsRecognizedFieldLine(l) /\ current_job # None) =>
                  /\ OnlyFieldChanged(jobs, jobs', current_job[1], FieldKey(l))
                  /\ IF FieldKey(l) = "condition"
                     THEN OnlyChildAppended(dependencies, dependencies', current_job[1])
                     ELSE dependencies' = dependencies]_vars

\* two jobs are defined, one holds a command and a condition that recorded a
\* raw edge, and the other is still as its insert_job line left it
C11_Witness ==
    /\ pc = "jil"
    /\ current_job # None
    /\ current_job[1] \in Keys(jobs)
    /\ jobs[current_job[1]].command = "echo a:b"
    /\ jobs[current_job[1]].condition # ""
    /\ \E p \in Keys(dependencies) : EdgeCount(dependencies, p, current_job[1]) > 0
    /\ \E n \in Keys(jobs) : n # current_job[1] /\ jobs[n] = NewJob(n)

\* the names the condition of a job refers to
ReferencedBy(condition) == {ReferenceName(condition, r) : r \in References(condition)}

\* C12, as claimed: after parse_jil_script on a fresh parser, every raw edge
\* (p -> c) has a defined child c whose stored condition refers to p.
C12_Claimed ==
    (pc # "jil" /\ runs = 1) =>
        \A e \in RawEdges(dependencies) :
            /\ e[2] \in Keys(jobs)
            /\ e[1] \in ReferencedBy(jobs[e[2]].condition)

\* what holds of every raw edge whatever lines were read: its child is a
\* defined job with a name, and differs from its parent.
C12_EdgesHaveDefinedChild ==
    \A e \in RawEdges(dependencies) :
        e[2] \in Keys(jobs) /\ e[2] # "" /\ e[1] # e[2]

====
